---- MODULE Spec2Model ----
(***************************************************************************)
(* Model of the TFTP client of src/기말과제.py: download_file (RRQ) and      *)
(* upload_file (WRQ) over one datagram socket, with the peer and the       *)
(* network as the environment that chooses what each recvfrom returns.     *)
(***************************************************************************)
EXTENDS Integers, Sequences, FiniteSets, TLC

VARIABLES
    operation,           \* args.operation: "get" or "put"
    pc,                  \* position of the transfer: Idle, Sending, AwaitingReply, Complete, Failed,
                         \* Crashed (an exception no handler catches ended the program)
    sock_open,           \* the socket of create_socket is open
    fileExists,          \* the name `filename` exists in the directory
    fileData,            \* bytes of the file `filename` (the open handle's file)
    expected_block_num,  \* download_file: expected_block_num
    block_num,           \* upload_file: block_num
    pos,                 \* upload_file: read position of the file object
    data_block,          \* upload_file: data_block of the current iteration
    last,                \* the tuple the last receive_data call returned
    sent,                \* every message handed to sock.sendto, in order
    printed,             \* the last line printed
    nrecv,               \* number of receive_data calls made
    peer,                \* history: source endpoint of the first reply received
    accepted             \* history: the replies download_file took its DATA branch for

vars == <<operation, pc, sock_open, fileExists, fileData, expected_block_num,
          block_num, pos, data_block, last, sent, printed, nrecv, peer, accepted>>

----------------------------------------------------------------------------
(* Bounds of the model *)

\* receive_data calls per transfer
MaxRecv == 3
\* blocks left before block number 32768 where a long transfer is picked up
WrapMargin == 2
\* largest block number the peer puts in a DATA or ACK message
MaxBlock == 3
\* full 512-byte blocks in the largest source file of an upload
MaxFullBlocks == 1
\* length of the short (final) payloads and of the tail of a source file
ShortLen == 488
\* largest error code the peer sends besides 65535
MaxErrCode == 8

----------------------------------------------------------------------------
(* Program constants *)

BLOCK_SIZE == 512

OPCODE == [RRQ |-> 1, WRQ |-> 2, DATA |-> 3, ACK |-> 4, ERROR |-> 5]

ERROR_CODE ==
    (0 :> "Not defined, see error message (if any).") @@
    (1 :> "File not found.") @@
    (2 :> "Access violation.") @@
    (3 :> "Disk full or allocation exceeded.") @@
    (4 :> "Illegal TFTP operation.") @@
    (5 :> "Unknown transfer ID.") @@
    (6 :> "File already exists.") @@
    (7 :> "No such user.")

\* the default of ERROR_CODE.get(block_num, ...): the generic unknown-error line
UNKNOWN_ERROR == "unknown error"

\* the lines the transfer prints
TIMEOUT_LINE == "timeout: no reply, retrying"
DOWNLOAD_DONE == "download complete"
UPLOAD_DONE == "upload complete"
NO_SUCH_FILE == "file does not exist"

\* the caller's (host, port): the server's well-known endpoint
server_address == "wellknown:69"

\* Python's None in the tuple receive_data returns on a timeout: no unpacked
\* 16-bit value equals it
None == 70000
NoEndpoint == "None"

----------------------------------------------------------------------------
(* Wire encoding: struct.pack / struct.unpack with format 'h' (signed 16-bit,
   big-endian).  A message's 16-bit fields are modelled by their unsigned wire
   value 0..65535. *)

\* pack('>h', n) succeeds for n in -32768..32767 and raises struct.error otherwise
CanPackH(n) == n >= -32768 /\ n <= 32767

\* pack('>h', n) for n in -32768..32767: the wire value
PackH(n) == n % 65536

\* unpack('>h', w): the wire value read as a signed 16-bit integer
UnpackH(w) == IF w >= 32768 THEN w - 65536 ELSE w

Min(a, b) == IF a <= b THEN a ELSE b

----------------------------------------------------------------------------
(* Byte strings.  A byte string is written as the sequence of the runs it is
   made of: the run [src, off, len] is the len > 0 bytes at offset off of the
   original byte source src (the source file of an upload, the payload a peer
   put in a datagram).  Bytes of different origin are different bytes; the
   empty byte string b'' is << >>. *)

\* the bytes off .. off+len-1 of the source src
Run(src, off, len) ==
    IF len > 0 THEN <<[src |-> src, off |-> off, len |-> len]>> ELSE <<>>

\* len(b)
RECURSIVE BLen(_)
BLen(b) == IF b = <<>> THEN 0 ELSE Head(b).len + BLen(Tail(b))

\* b[p : p + n]: at most n bytes of b from offset p on
RECURSIVE Slice(_, _, _)
Slice(b, p, n) ==
    IF b = <<>> \/ n = 0 THEN <<>>
    ELSE LET h == Head(b) IN
         IF p >= h.len THEN Slice(Tail(b), p - h.len, n)
         ELSE LET take == Min(n, h.len - p) IN
              Run(h.src, h.off + p, take) \o Slice(Tail(b), 0, n - take)

----------------------------------------------------------------------------
(* The environment: what the network can hand to recvfrom *)

\* the source endpoints of replies: the ephemeral ports a server answers from
Endpoints == {"E1:1025", "E2:1026"}

\* the payloads of DATA messages: a full block, a short block, an empty one
Payloads == {Run("full", 0, BLOCK_SIZE), Run("short", 0, ShortLen), <<>>}

ErrorCodes == (0..MaxErrCode) \cup {65535}

Datagrams ==
    [opcode : {OPCODE.DATA}, block_num : 0..MaxBlock, data : Payloads, server : Endpoints]
    \cup [opcode : {OPCODE.ACK}, block_num : 0..MaxBlock, data : {<<>>}, server : Endpoints]
    \cup [opcode : {OPCODE.ERROR}, block_num : ErrorCodes, data : {<<>>}, server : Endpoints]
    \cup [opcode : {OPCODE.RRQ}, block_num : {0}, data : {<<>>}, server : {"E1:1025"}]

\* the source files an upload can start from, and what a download may overwrite
SourceFiles ==
    {Run("file", 0, k * BLOCK_SIZE + r) : k \in 0..MaxFullBlocks, r \in {0, ShortLen}}

----------------------------------------------------------------------------
(* The functions of the program *)

\* receive_data, a datagram arrived: opcode and block number unpacked, the rest
\* is the file data, with the datagram's source
ReceiveData(d) ==
    [opcode |-> UnpackH(d.opcode), block_num |-> UnpackH(d.block_num),
     file_data |-> d.data, server |-> d.server]

\* receive_data, socket.timeout caught: (None, None, None, None)
NoneTuple ==
    [opcode |-> None, block_num |-> None, file_data |-> <<>>, server |-> NoEndpoint]

\* send_request: the RRQ or WRQ message to the given address
SendRequest(s, opcode, addr) ==
    Append(s, [opcode |-> PackH(opcode), block_num |-> 0, data |-> <<>>, dest |-> addr])

\* variant: the ACK goes to the well-known address
SendAck_WellKnown(s, blk, addr) ==
    Append(s, [opcode |-> PackH(OPCODE.ACK), block_num |-> PackH(blk),
               data |-> <<>>, dest |-> server_address])

\* send_ack
SendAck(s, blk, addr) ==
    Append(s, [opcode |-> PackH(OPCODE.ACK), block_num |-> PackH(blk),
               data |-> <<>>, dest |-> addr])

\* send_data
SendData(s, blk, block, addr) ==
    Append(s, [opcode |-> PackH(OPCODE.DATA), block_num |-> PackH(blk),
               data |-> block, dest |-> addr])

\* file.read(BLOCK_SIZE) at read position p: the next bytes, at most 512
FileRead(f, p) == Slice(f, p, BLOCK_SIZE)

\* variant: code 0 is taken for a missing key
ErrorCodeGet_NoZero(code) ==
    IF code \in DOMAIN ERROR_CODE /\ code # 0 THEN ERROR_CODE[code] ELSE UNKNOWN_ERROR

\* ERROR_CODE.get(code, default)
ErrorCodeGet(code) ==
    IF code \in DOMAIN ERROR_CODE THEN ERROR_CODE[code] ELSE UNKNOWN_ERROR

\* variant: the block number is not compared
IsExpectedData_AnyBlock(r, expected) ==
    r.opcode = OPCODE.DATA

\* variant: blocks up to the expected one are taken
IsExpectedData_OrEarlier(r, expected) ==
    r.opcode = OPCODE.DATA /\ r.block_num >= 1 /\ r.block_num <= expected

\* download_file, line 72: the reply is the DATA message of the expected block
IsExpectedData(r, expected) ==
    r.opcode = OPCODE.DATA /\ r.block_num = expected

\* download_file, line 81
IsError(r) == r.opcode = OPCODE.ERROR

\* variant: a full block counts as the last one
IsLastBlock_Inclusive(block) == BLen(block) <= BLOCK_SIZE

\* lines 77 and 105: the block is the last one
IsLastBlock(block) == BLen(block) < BLOCK_SIZE

\* variant: the block number of the ACK is not compared
IsMatchingAck_AnyAck(r, blk) ==
    r.opcode = OPCODE.ACK

\* upload_file, line 102: the reply is the ACK of the current block
IsMatchingAck(r, blk) ==
    r.opcode = OPCODE.ACK /\ r.block_num = blk

\* history variables: the first reply's source endpoint
FirstPeer(r) == IF peer = NoEndpoint THEN r.server ELSE peer

----------------------------------------------------------------------------
(* Initial state: main has parsed the arguments and created the socket *)

Init ==
    /\ operation \in {"get", "put"}
    /\ pc = "Idle"
    /\ sock_open = TRUE
    /\ fileExists \in BOOLEAN
    /\ fileData \in (IF fileExists THEN SourceFiles ELSE {<<>>})
    /\ expected_block_num = 0
    /\ block_num = 0
    /\ pos = 0
    /\ data_block = <<>>
    /\ last = NoneTuple
    /\ sent = <<>>
    /\ printed = ""
    /\ nrecv = 0
    /\ peer = NoEndpoint
    /\ accepted = <<>>

----------------------------------------------------------------------------
(* download_file *)

\* lines 65-68: RRQ sent, destination opened with 'wb' (created or truncated)
DownloadStart ==
    /\ operation = "get" /\ pc = "Idle"
    /\ sent' = SendRequest(sent, OPCODE.RRQ, server_address)
    /\ fileExists' = TRUE
    /\ fileData' = <<>>
    /\ expected_block_num' = 1
    /\ pc' = "AwaitingReply"
    /\ UNCHANGED <<operation, sock_open, block_num, pos, data_block, last,
                   printed, nrecv, peer, accepted>>

\* lines 71-80: the expected DATA block is written and acknowledged
DownloadData(d) ==
    LET r == ReceiveData(d) IN
    /\ operation = "get" /\ pc = "AwaitingReply" /\ nrecv < MaxRecv
    /\ IsExpectedData(r, expected_block_num)
    /\ fileData' = fileData \o r.file_data
    /\ sent' = SendAck(sent, r.block_num, r.server)
    /\ expected_block_num' = expected_block_num + 1
    /\ pc' = IF IsLastBlock(r.file_data) THEN "Complete" ELSE "AwaitingReply"
    /\ printed' = IF IsLastBlock(r.file_data) THEN DOWNLOAD_DONE ELSE printed
    /\ last' = r
    /\ nrecv' = nrecv + 1
    /\ peer' = FirstPeer(r)
    /\ accepted' = Append(accepted, r)
    /\ UNCHANGED <<operation, sock_open, fileExists, block_num, pos, data_block>>

\* lines 71, 81-85: an ERROR message ends the loop, the file is removed
DownloadError(d) ==
    LET r == ReceiveData(d) IN
    /\ operation = "get" /\ pc = "AwaitingReply" /\ nrecv < MaxRecv
    /\ ~IsExpectedData(r, expected_block_num)
    /\ IsError(r)
    /\ printed' = ErrorCodeGet(r.block_num)
    /\ fileExists' = FALSE
    /\ pc' = "Failed"
    /\ last' = r
    /\ nrecv' = nrecv + 1
    /\ peer' = FirstPeer(r)
    /\ UNCHANGED <<operation, sock_open, fileData, expected_block_num, block_num,
                   pos, data_block, sent, accepted>>

\* variant: an else branch ends the loop
DownloadDiscard_Breaks(d) ==
    LET r == ReceiveData(d) IN
    /\ operation = "get" /\ pc = "AwaitingReply" /\ nrecv < MaxRecv
    /\ ~(r.opcode = OPCODE.DATA /\ r.block_num = expected_block_num)
    /\ r.opcode # OPCODE.ERROR
    /\ pc' = "Failed"
    /\ last' = r
    /\ nrecv' = nrecv + 1
    /\ peer' = FirstPeer(r)
    /\ UNCHANGED <<operation, sock_open, fileExists, fileData, expected_block_num,
                   block_num, pos, data_block, sent, printed, accepted>>

\* lines 71-85, neither branch taken: the loop receives again
DownloadDiscard(d) ==
    LET r == ReceiveData(d) IN
    /\ operation = "get" /\ pc = "AwaitingReply" /\ nrecv < MaxRecv
    /\ ~IsExpectedData(r, expected_block_num)
    /\ ~IsError(r)
    /\ pc' = "AwaitingReply"
    /\ last' = r
    /\ nrecv' = nrecv + 1
    /\ peer' = FirstPeer(r)
    /\ UNCHANGED <<operation, sock_open, fileExists, fileData, expected_block_num,
                   block_num, pos, data_block, sent, printed, accepted>>

\* variant: a timeout ends the loop
DownloadTimeout_Fails ==
    /\ operation = "get" /\ pc = "AwaitingReply" /\ nrecv < MaxRecv
    /\ printed' = TIMEOUT_LINE
    /\ pc' = "Failed"
    /\ last' = NoneTuple
    /\ nrecv' = nrecv + 1
    /\ UNCHANGED <<operation, sock_open, fileExists, fileData, expected_block_num,
                   block_num, pos, data_block, sent, peer, accepted>>

\* lines 58-61 and 71-85: recvfrom timed out, receive_data printed and returned
\* the None tuple, neither branch of the loop is taken
DownloadTimeout ==
    /\ operation = "get" /\ pc = "AwaitingReply" /\ nrecv < MaxRecv
    /\ ~IsExpectedData(NoneTuple, expected_block_num)
    /\ ~IsError(NoneTuple)
    /\ printed' = TIMEOUT_LINE
    /\ pc' = "AwaitingReply"
    /\ last' = NoneTuple
    /\ nrecv' = nrecv + 1
    /\ UNCHANGED <<operation, sock_open, fileExists, fileData, expected_block_num,
                   block_num, pos, data_block, sent, peer, accepted>>

----------------------------------------------------------------------------
(* upload_file *)

\* variant: the existence test comes after the request was sent
UploadMissing_AfterRequest ==
    /\ operation = "put" /\ pc = "Idle"
    /\ ~fileExists
    /\ sent' = SendRequest(sent, OPCODE.WRQ, server_address)
    /\ printed' = NO_SUCH_FILE
    /\ pc' = "Failed"
    /\ UNCHANGED <<operation, sock_open, fileExists, fileData, expected_block_num,
                   block_num, pos, data_block, last, nrecv, peer, accepted>>

\* lines 89-91: the source file does not exist, sys.exit(1)
UploadMissing ==
    /\ operation = "put" /\ pc = "Idle"
    /\ ~fileExists
    /\ printed' = NO_SUCH_FILE
    /\ pc' = "Failed"
    /\ UNCHANGED <<operation, sock_open, fileExists, fileData, expected_block_num,
                   block_num, pos, data_block, last, sent, nrecv, peer, accepted>>

\* lines 93-96: WRQ sent, source opened with 'rb'
UploadStart ==
    /\ operation = "put" /\ pc = "Idle"
    /\ fileExists
    /\ sent' = SendRequest(sent, OPCODE.WRQ, server_address)
    /\ block_num' = 1
    /\ pos' = 0
    /\ pc' = "Sending"
    /\ UNCHANGED <<operation, sock_open, fileExists, fileData, expected_block_num,
                   data_block, last, printed, nrecv, peer, accepted>>

\* lines 98-99: the top of the loop reads the next block and sends it; pack
\* in send_data raises struct.error for a block number it cannot encode, which
\* nothing catches
UploadSend ==
    /\ operation = "put" /\ pc = "Sending"
    /\ data_block' = FileRead(fileData, pos)
    /\ pos' = pos + BLen(data_block')
    /\ IF CanPackH(block_num)
       THEN /\ sent' = SendData(sent, block_num, data_block', server_address)
            /\ pc' = "AwaitingReply"
       ELSE /\ sent' = sent
            /\ pc' = "Crashed"
    /\ UNCHANGED <<operation, sock_open, fileExists, fileData, expected_block_num,
                   block_num, last, printed, nrecv, peer, accepted>>

\* lines 101-108: the ACK of the current block
UploadAck(d) ==
    LET r == ReceiveData(d) IN
    /\ operation = "put" /\ pc = "AwaitingReply" /\ nrecv < MaxRecv
    /\ IsMatchingAck(r, block_num)
    /\ block_num' = block_num + 1
    /\ pc' = IF IsLastBlock(data_block) THEN "Complete" ELSE "Sending"
    /\ printed' = IF IsLastBlock(data_block) THEN UPLOAD_DONE ELSE printed
    /\ last' = r
    /\ nrecv' = nrecv + 1
    /\ peer' = FirstPeer(r)
    /\ UNCHANGED <<operation, sock_open, fileExists, fileData, expected_block_num,
                   pos, data_block, sent, accepted>>

\* lines 101-102, condition false: any other reply (an ERROR message too) falls
\* through to the top of the loop
UploadMismatch(d) ==
    LET r == ReceiveData(d) IN
    /\ operation = "put" /\ pc = "AwaitingReply" /\ nrecv < MaxRecv
    /\ ~IsMatchingAck(r, block_num)
    /\ pc' = "Sending"
    /\ last' = r
    /\ nrecv' = nrecv + 1
    /\ peer' = FirstPeer(r)
    /\ UNCHANGED <<operation, sock_open, fileExists, fileData, expected_block_num,
                   block_num, pos, data_block, sent, printed, accepted>>

\* lines 58-61 and 101-102: recvfrom timed out inside receive_data, which
\* returns the None tuple (the except of line 109 is never entered); the loop
\* goes back to its top
UploadTimeout ==
    /\ operation = "put" /\ pc = "AwaitingReply" /\ nrecv < MaxRecv
    /\ ~IsMatchingAck(NoneTuple, block_num)
    /\ printed' = TIMEOUT_LINE
    /\ pc' = "Sending"
    /\ last' = NoneTuple
    /\ nrecv' = nrecv + 1
    /\ UNCHANGED <<operation, sock_open, fileExists, fileData, expected_block_num,
                   block_num, pos, data_block, sent, peer, accepted>>

----------------------------------------------------------------------------

Next ==
    \/ DownloadStart
    \/ \E d \in Datagrams : DownloadData(d)
    \/ \E d \in Datagrams : DownloadError(d)
    \/ \E d \in Datagrams : DownloadDiscard(d)
    \/ DownloadTimeout
    \/ UploadMissing
    \/ UploadStart
    \/ UploadSend
    \/ \E d \in Datagrams : UploadAck(d)
    \/ \E d \in Datagrams : UploadMismatch(d)
    \/ UploadTimeout

Spec == Init /\ [][Next]_vars

----------------------------------------------------------------------------
(* A long transfer, picked up WrapMargin blocks before block number 32768.
   The state is the one the loops above are in after WrapStart - 1 full blocks
   were transferred without a timeout or a stray reply, all replies coming from
   one endpoint; the history variables sent, nrecv and accepted record what
   happens from that state on. *)

WrapStart == 32768 - WrapMargin

\* what the network hands to recvfrom near the boundary
WrapDatagrams ==
    [opcode : {OPCODE.DATA}, block_num : (WrapStart - 1)..32769,
     data : {Run("full", 0, BLOCK_SIZE), <<>>}, server : {"E1:1025"}]
    \cup [opcode : {OPCODE.ACK}, block_num : (WrapStart - 1)..32769,
          data : {<<>>}, server : {"E1:1025"}]
    \cup [opcode : {OPCODE.ERROR}, block_num : {1}, data : {<<>>}, server : {"E1:1025"}]

\* source files of an upload that is still running at block WrapStart: one
\* whose last block is number 32767, one with 32768 full blocks
LongFiles ==
    {Run("file", 0, 32766 * BLOCK_SIZE + ShortLen), Run("file", 0, 32768 * BLOCK_SIZE)}

InitWrap ==
    /\ operation \in {"get", "put"}
    /\ sock_open = TRUE
    /\ fileExists = TRUE
    /\ sent = <<>>
    /\ printed = ""
    /\ nrecv = 0
    /\ peer = "E1:1025"
    /\ accepted = <<>>
    /\ IF operation = "get"
       THEN /\ pc = "AwaitingReply"
            /\ expected_block_num = WrapStart
            /\ fileData = Run("earlier", 0, (WrapStart - 1) * BLOCK_SIZE)
            /\ block_num = 0 /\ pos = 0 /\ data_block = <<>>
            /\ last = ReceiveData([opcode |-> OPCODE.DATA, block_num |-> WrapStart - 1,
                                   data |-> Run("full", 0, BLOCK_SIZE),
                                   server |-> "E1:1025"])
       ELSE /\ pc = "Sending"
            /\ block_num = WrapStart
            /\ fileData \in LongFiles
            /\ pos = (WrapStart - 1) * BLOCK_SIZE
            /\ data_block = FileRead(fileData, (WrapStart - 2) * BLOCK_SIZE)
            /\ expected_block_num = 0
            /\ last = ReceiveData([opcode |-> OPCODE.ACK, block_num |-> WrapStart - 1,
                                   data |-> <<>>, server |-> "E1:1025"])

NextWrap ==
    \/ \E d \in WrapDatagrams : DownloadData(d)
    \/ \E d \in WrapDatagrams : DownloadError(d)
    \/ \E d \in WrapDatagrams : DownloadDiscard(d)
    \/ DownloadTimeout
    \/ UploadSend
    \/ \E d \in WrapDatagrams : UploadAck(d)
    \/ \E d \in WrapDatagrams : UploadMismatch(d)
    \/ UploadTimeout

SpecWrap == InitWrap /\ [][NextWrap]_vars

----------------------------------------------------------------------------
(* Properties *)

\* the concatenation of the file_data of a sequence of replies
RECURSIVE ConcatData(_)
ConcatData(rs) ==
    IF rs = <<>> THEN <<>>
    ELSE ConcatData(SubSeq(rs, 1, Len(rs) - 1)) \o rs[Len(rs)].file_data

\* a step that is one receive_data call
Received == nrecv' = nrecv + 1

\* the bytes of a file at offset (n-1)*512, up to 512 of them
ChunkAt(f, n) == Slice(f, (n - 1) * BLOCK_SIZE, BLOCK_SIZE)

IsDataMsg(m) == m.opcode = OPCODE.DATA
IsAckMsg(m) == m.opcode = OPCODE.ACK

\* C1: download integrity. In every state of a download the replies taken as
\* DATA are the blocks 1, 2, ..., expected_block_num - 1, one each and in that
\* order, and the bytes of the destination file are the concatenation of
\* their payloads, whatever the network delivered in between.
C1_DownloadIntegrity ==
    (operation = "get" /\ pc # "Idle") =>
        /\ Len(accepted) = expected_block_num - 1
        /\ \A i \in 1..Len(accepted) :
              IsDataMsg(accepted[i]) /\ accepted[i].block_num = i
        /\ fileData = ConcatData(accepted)

\* C1 witness: two blocks written, with a discarded reply among three receives
C1_Witness ==
    /\ operation = "get"
    /\ Len(accepted) = 2
    /\ nrecv = 3
    /\ BLen(fileData) = 2 * BLOCK_SIZE

\* C2: upload payload position (the claim as stated). Every DATA message
\* upload_file has sent with block number n carries the bytes of the source
\* file at offset (n-1)*512, up to 512 of them.
C2_UploadPayloadPosition ==
    operation = "put" =>
        \A i \in 1..Len(sent) :
            IsDataMsg(sent[i]) =>
                sent[i].data = ChunkAt(fileData, UnpackH(sent[i].block_num))

\* C3: upload retransmission on timeout (the claim as stated). When the
\* receive after DATA(n, chunk) timed out, the next message upload_file sends
\* is the same DATA message: same block number, same payload, same address.
C3_UploadRetransmitsSame ==
    [][(operation = "put" /\ pc = "Sending" /\ nrecv > 0 /\ last = NoneTuple
            /\ Len(sent') = Len(sent) + 1)
        => sent'[Len(sent')] = sent[Len(sent)]]_vars

C5_UploadErrorTerminal ==
    (operation = "put" /\ last.opcode = OPCODE.ERROR) => pc = "Failed"

\* the fixed strings of the claim, by error code
C6_Text(c) ==
    CASE c = 0 -> "Not defined, see error message (if any)."
      [] c = 1 -> "File not found."
      [] c = 2 -> "Access violation."
      [] c = 3 -> "Disk full or allocation exceeded."
      [] c = 4 -> "Illegal TFTP operation."
      [] c = 5 -> "Unknown transfer ID."
      [] c = 6 -> "File already exists."
      [] c = 7 -> "No such user."
      [] OTHER -> UNKNOWN_ERROR

\* C6: download ERROR translation. When download_file receives an ERROR
\* message with code c, the download ends in failure, the destination file no
\* longer exists, no ACK (no message at all) is sent for it, and the line
\* reported is the fixed string of c for c in 0..7 and the generic
\* unknown-error string for any other c.
C6_DownloadErrorTranslation ==
    [][(operation = "get" /\ pc = "AwaitingReply" /\ Received
            /\ last'.opcode = OPCODE.ERROR)
        => /\ pc' = "Failed"
           /\ ~fileExists'
           /\ sent' = sent
           /\ printed' = C6_Text(last'.block_num)
           /\ (last'.block_num \notin 0..7 => printed' = UNKNOWN_ERROR)]_vars

\* C6 witness: a download that had written a block failed on ERROR code 1
C6_Witness ==
    /\ operation = "get" /\ pc = "Failed"
    /\ last.opcode = OPCODE.ERROR /\ last.block_num = 1
    /\ Len(accepted) >= 1
    /\ ~fileExists /\ printed = "File not found."

\* a receive step of download_file that returns a DATA message of a block
\* already written and acknowledged
DuplicateDataReceived ==
    /\ operation = "get" /\ pc = "AwaitingReply" /\ Received
    /\ last'.opcode = OPCODE.DATA
    /\ last'.block_num >= 1 /\ last'.block_num < expected_block_num

\* C7 (as stated): on a duplicate DATA message the file is unchanged and the
\* ACK of that block number is sent again.
C7_DuplicateReAcked ==
    [][DuplicateDataReceived
        => /\ fileData' = fileData
           /\ sent' = SendAck(sent, last'.block_num, last'.server)]_vars

\* C7 (amended): on a duplicate DATA message the file is unchanged and the
\* message is discarded: no ACK is sent again, the expected block number is
\* unchanged and the download keeps waiting.
C7_DuplicateDiscarded ==
    [][DuplicateDataReceived
        => /\ fileData' = fileData
           /\ sent' = sent
           /\ expected_block_num' = expected_block_num
           /\ pc' = "AwaitingReply"]_vars

\* C7 witness: blocks 1 and 2 were written, then DATA 1 arrived again
C7_Witness ==
    /\ operation = "get" /\ pc = "AwaitingReply"
    /\ Len(accepted) = 2 /\ expected_block_num = 3
    /\ last.opcode = OPCODE.DATA /\ last.block_num = 1
    /\ fileData = ConcatData(accepted)

\* C8 (as stated): once a first reply has come from endpoint E, a message from
\* another endpoint is discarded: it changes neither the file nor the
\* messages sent nor the block number.
C8_EndpointLocking ==
    [][(peer # NoEndpoint /\ Received /\ last' # NoneTuple /\ last'.server # peer)
        => /\ fileData' = fileData
           /\ sent' = sent
           /\ expected_block_num' = expected_block_num
           /\ block_num' = block_num]_vars

\* C9 (as stated): every DATA message upload_file sends after the first reply
\* came from endpoint E is addressed to E.
C9_UploadRetargets ==
    [][(operation = "put" /\ peer # NoEndpoint /\ Len(sent') = Len(sent) + 1)
        => sent'[Len(sent')].dest = peer]_vars

\* the block numbers of the ACK messages sent, in order
AckBlocks(s) ==
    LET acks == SelectSeq(s, IsAckMsg)
    IN [i \in 1..Len(acks) |-> UnpackH(acks[i].block_num)]

\* C10: download final-block detection. A step of download_file enters the
\* Complete state exactly when it is the receive of a DATA message with the
\* expected block number and a payload shorter than 512 bytes (0 bytes
\* included), never on a 512-byte payload; and on completion one ACK has been
\* sent for each of the blocks 1..expected_block_num-1, in order.
C10_FinalBlockDetection ==
    [][operation = "get" =>
        /\ (pc # "Complete" /\ pc' = "Complete")
             <=> (/\ pc = "AwaitingReply" /\ Received
                  /\ last'.opcode = OPCODE.DATA
                  /\ last'.block_num = expected_block_num
                  /\ BLen(last'.file_data) < BLOCK_SIZE)
        /\ pc' = "Complete" =>
             AckBlocks(sent') = [i \in 1..(expected_block_num' - 1) |-> i]]_vars

\* C10 witness: a 512-byte block, then a 0-byte block, completed with two ACKs
C10_Witness ==
    /\ operation = "get" /\ pc = "Complete"
    /\ Len(accepted) = 2
    /\ BLen(accepted[1].file_data) = BLOCK_SIZE
    /\ accepted[2].file_data = <<>>
    /\ AckBlocks(sent) = <<1, 2>>
    /\ BLen(fileData) = BLOCK_SIZE

\* C11 (as stated): when a transfer has reached its terminal state (download
\* complete, download failed on ERROR, upload complete, upload failed on its
\* precondition) the socket of create_socket has been closed.
C11_SocketReleased ==
    pc \in {"Complete", "Failed"} => ~sock_open

\* C12: upload precondition. When the source file does not exist, upload_file
\* fails at once and no message at all (no WRQ, no DATA) is sent.
C12_UploadPrecondition ==
    (operation = "put" /\ ~fileExists) =>
        /\ sent = <<>>
        /\ nrecv = 0
        /\ pc \in {"Idle", "Failed"}
        /\ pc = "Failed" => printed = NO_SUCH_FILE

\* C12 witness: an upload that failed on the missing source file
C12_Witness ==
    /\ operation = "put" /\ ~fileExists
    /\ pc = "Failed" /\ printed = NO_SUCH_FILE /\ sent = <<>>

\* C13 (as stated): the expected block number (download) and the current
\* block number (upload) are unsigned 16-bit counters that wrap modulo 65536:
\* they stay in 0..65535, a received block number is compared as an unsigned
\* value (a DATA message whose 16-bit block field is the expected number
\* modulo 65536 is taken and moves the expected number to its successor
\* modulo 65536; likewise an ACK in upload), and the transfer keeps
\* progressing (the next DATA message is sent) past any block number.
C13_BlockNumbersWrap ==
    [][/\ expected_block_num' \in 0..65535
       /\ block_num' \in 0..65535
       /\ (operation = "get" /\ pc = "AwaitingReply" /\ Received
             /\ last'.opcode = OPCODE.DATA
             /\ PackH(last'.block_num) = expected_block_num % 65536)
           => expected_block_num' = (expected_block_num + 1) % 65536
       /\ (operation = "put" /\ pc = "AwaitingReply" /\ Received
             /\ last'.opcode = OPCODE.ACK
             /\ PackH(last'.block_num) = block_num % 65536)
           => block_num' = (block_num + 1) % 65536
       /\ (operation = "put" /\ pc = "Sending") => pc' = "AwaitingReply"]_vars

\* the DATA messages sent bear block numbers from 1 up to the current one, in
\* nondecreasing order
UploadBlocksInOrder ==
    LET data == SelectSeq(sent, IsDataMsg) IN
    /\ \A i \in 1..Len(data) :
          UnpackH(data[i].block_num) >= 1 /\ UnpackH(data[i].block_num) <= block_num
    /\ \A i \in 1..(Len(data) - 1) :
          UnpackH(data[i].block_num) <= UnpackH(data[i + 1].block_num)

\* C14: upload lock-step. The block number of upload_file starts at 1 and
\* changes only by 1, on the receive of an ACK bearing the current block
\* number; a timeout or any other reply leaves it unchanged; every DATA
\* message sent bears the current block number, so DATA n+1 is sent only
\* after ACK n was received.
C14_UploadLockStep ==
    [][operation = "put" =>
        /\ block_num' # block_num =>
             \/ pc = "Idle" /\ block_num' = 1
             \/ /\ pc = "AwaitingReply" /\ Received
                /\ last'.opcode = OPCODE.ACK /\ last'.block_num = block_num
                /\ block_num' = block_num + 1
        /\ Len(sent') = Len(sent) + 1 /\ pc = "Sending" =>
             /\ IsDataMsg(sent'[Len(sent')])
             /\ UnpackH(sent'[Len(sent')].block_num) = block_num
        /\ UploadBlocksInOrder']_vars

\* C14 witness: DATA 2 was sent after ACK 1, and again after a timeout
C14_Witness ==
    /\ operation = "put" /\ pc = "AwaitingReply"
    /\ block_num = 2 /\ last = NoneTuple
    /\ Len(sent) = 4
    /\ UnpackH(sent[2].block_num) = 1
    /\ UnpackH(sent[3].block_num) = 2 /\ UnpackH(sent[4].block_num) = 2

\* upload_file is at the top of its loop and the reply it has just handled was
\* a mismatched one: neither a timeout nor an ERROR nor the ACK of a block
\* (the ACK that moved block_num to its value bears block_num - 1, and no ACK
\* was matched while block_num is 1)
AfterMismatchedReply ==
    /\ operation = "put" /\ pc = "Sending" /\ nrecv > 0
    /\ last # NoneTuple
    /\ last.opcode # OPCODE.ERROR
    /\ last.opcode = OPCODE.ACK => (block_num = 1 \/ last.block_num # block_num - 1)

\* C15 (as stated): after a reply that is not the ACK of the current block
\* (another opcode than ERROR, or an ACK with another block number such as
\* ACK 0) upload_file sends nothing: it keeps waiting, and a DATA message is
\* sent again only after a receive timed out.
C15_UploadMismatchWaits ==
    [][AfterMismatchedReply => sent' = sent]_vars

\* C16 (as stated): upload_file reports success only after a DATA block
\* shorter than 512 bytes was acknowledged by the matching ACK, and for a
\* source file of exactly k full blocks (k >= 0) the block acknowledged on
\* success is the zero-length DATA block k+1.
C16_UploadFinalBlock ==
    (operation = "put" /\ pc = "Complete") =>
        /\ BLen(data_block) < BLOCK_SIZE
        /\ last.opcode = OPCODE.ACK /\ last.block_num = block_num - 1
        /\ IsDataMsg(sent[Len(sent)])
        /\ UnpackH(sent[Len(sent)].block_num) = last.block_num
        /\ sent[Len(sent)].data = data_block
        /\ BLen(fileData) % BLOCK_SIZE = 0 =>
             /\ data_block = <<>>
             /\ last.block_num = (BLen(fileData) \div BLOCK_SIZE) + 1

\* C17: download discard. When download_file receives a message that is
\* neither the DATA message of the expected block nor an ERROR (a DATA with
\* another block number, an ACK, another opcode), the file, the expected
\* block number and the messages sent are unchanged, the message is not kept
\* for later (the replies written stay the same) and the download goes on
\* waiting.
C17_DownloadDiscard ==
    [][(/\ operation = "get" /\ pc = "AwaitingReply" /\ Received
        /\ last' # NoneTuple
        /\ ~(last'.opcode = OPCODE.DATA /\ last'.block_num = expected_block_num)
        /\ last'.opcode # OPCODE.ERROR)
        => /\ fileData' = fileData /\ fileExists' = fileExists
           /\ expected_block_num' = expected_block_num
           /\ accepted' = accepted
           /\ sent' = sent
           /\ pc' = "AwaitingReply"]_vars

\* C17 witness: DATA 3 arrived while block 2 was expected and was dropped; the
\* file holds block 1 only
C17_Witness ==
    /\ operation = "get" /\ pc = "AwaitingReply"
    /\ expected_block_num = 2
    /\ last.opcode = OPCODE.DATA /\ last.block_num = 3
    /\ Len(accepted) = 1 /\ fileData = accepted[1].file_data
    /\ BLen(fileData) = BLOCK_SIZE

\* C19: download ACK sequence. In every state of a download the messages sent
\* are the RRQ followed by one ACK per block written: the i-th ACK bears block
\* number i and is addressed to the source endpoint of the i-th DATA message
\* written, whose payload is in the file; their number is
\* expected_block_num - 1, so nothing is sent on a timeout or a discard.
C19_DownloadAckSequence ==
    (operation = "get" /\ pc # "Idle") =>
        LET acks == SelectSeq(sent, IsAckMsg) IN
        /\ Len(sent) = 1 + Len(acks)
        /\ sent[1].opcode = OPCODE.RRQ /\ sent[1].dest = server_address
        /\ Len(acks) = expected_block_num - 1
        /\ Len(acks) = Len(accepted)
        /\ \A i \in 1..Len(acks) :
              /\ sent[i + 1] = acks[i]
              /\ UnpackH(acks[i].block_num) = i
              /\ accepted[i].block_num = i
              /\ acks[i].dest = accepted[i].server
        /\ fileData = ConcatData(accepted)

\* C19 witness: two blocks acknowledged, to the two endpoints they came from,
\* with a timeout after them
C19_Witness ==
    /\ operation = "get" /\ pc = "AwaitingReply"
    /\ expected_block_num = 3 /\ nrecv = 3 /\ last = NoneTuple
    /\ Len(sent) = 3
    /\ sent[2].dest = "E1:1025" /\ sent[3].dest = "E2:1026"

\* C18 (as stated): upload retries without bound. A timeout in upload_file
\* returns to the send step with the block number unchanged and never ends the
\* upload; every send step sends one more DATA message and waits again; the
\* matching ACK of a short block completes the upload; the loop is never left
\* for a failure, so that with the matching ACK of each block eventually
\* delivered the upload reaches Complete.
C18_UploadUnboundedRetry ==
    [][/\ (operation = "put" /\ pc = "AwaitingReply" /\ Received /\ last' = NoneTuple)
           => (pc' = "Sending" /\ block_num' = block_num)
       /\ (operation = "put" /\ pc = "Sending")
           => /\ pc' = "AwaitingReply"
              /\ Len(sent') = Len(sent) + 1
              /\ IsDataMsg(sent'[Len(sent')])
       /\ (operation = "put" /\ pc = "AwaitingReply" /\ Received
             /\ IsMatchingAck(last', block_num) /\ BLen(data_block) < BLOCK_SIZE)
           => pc' = "Complete"
       /\ (operation = "put" /\ pc \in {"Sending", "AwaitingReply"})
           => pc' \in {"Sending", "AwaitingReply", "Complete"}]_vars

====
